---- MODULE Spec2Model ----
(***************************************************************************)
(* A model of the two template-resolution tools of lightmetrica-v2:        *)
(*   tools/resolve.py    (Single Resolver)                                 *)
(*   tools/cbresolve.py  (Sweep Resolver)                                  *)
(*                                                                         *)
(* Text is a sequence of atoms (short strings).  A command-line string is  *)
(* such a sequence; the atom "=" is the character the tools split on, the  *)
(* atom "/" is the path separator, and atoms of the form "{{x}}",          *)
(* "{{x.attr}}" are Jinja2 placeholders.  A Python value is a pair         *)
(* <<type, text>> where text is what str() of the value gives.             *)
(***************************************************************************)
EXTENDS Naturals, Sequences, FiniteSets

VARIABLES
    tool,         \* which program runs: "sweep" (cbresolve.py) or "single"
    infile,       \* args.infile: a string
    args_entry,   \* args.entry: [isNone, items]; None when no -t was given
    unknown,      \* cbresolve.py: the pass-through arguments
    exeExists,    \* environment: whether ./lightmetrica can be executed
    pc,           \* position of main()
    i,            \* index of the entry the parse loop is at
    entries,      \* cbresolve.py: the list of option lists
    combos,       \* the sequence itertools.product iterates over
    visited,      \* the tuples the for loop has bound to `entry`, in order
    context,      \* the dict, as a sequence of <<key, value>> in insertion order
    filename,     \* cbresolve.py: the rendered path
    scene,        \* the loaded template source
    resolved,     \* the rendered document
    resolved_args,\* cbresolve.py: the rendered pass-through arguments
    fsLog,        \* the paths the template loader looked up, in order
    launches,     \* the subprocesses started, in order: command and input
    alive,        \* the subprocesses (indices of launches) that have not exited
    pstatus,      \* the state of the process `p` is bound to
    out,          \* standard output, a sequence of <<tag, text>>
    err           \* the exception that ended the run, or "none"

vars == <<tool, infile, args_entry, unknown, exeExists, pc, i, entries, combos,
          visited, context, filename, scene, resolved, resolved_args, fsLog,
          launches, alive, pstatus, out, err>>

\* The longest list of -t entries the model draws.
MaxEntries == 2

(***************************************************************************)
(* Sequence helpers.                                                       *)
(***************************************************************************)
Range(s) == {s[j] : j \in 1..Len(s)}

RECURSIVE Flatten(_)
Flatten(ss) == IF ss = <<>> THEN <<>> ELSE Head(ss) \o Flatten(Tail(ss))

SeqsUpTo(S, lo, hi) == UNION {[1..n -> S] : n \in lo..hi}

\* The largest index of s holding atom a, 0 if none (str.rfind + 1).
LastIndexOf(s, a) ==
    LET hits == {j \in 1..Len(s) : s[j] = a}
    IN  IF hits = {} THEN 0 ELSE CHOOSE j \in hits : \A h \in hits : h <= j

(***************************************************************************)
(* str.split('=') : the parts between the "=" atoms.                       *)
(***************************************************************************)
RECURSIVE Split(_)
Split(s) ==
    LET eqs == {j \in 1..Len(s) : s[j] = "="}
    IN  IF eqs = {} THEN <<s>>
        ELSE LET f == CHOOSE j \in eqs : \A h \in eqs : j <= h
             IN  <<SubSeq(s, 1, f - 1)>> \o Split(SubSeq(s, f + 1, Len(s)))

(***************************************************************************)
(* eval(value) of cbresolve.py on the value expressions the model draws.   *)
(* A list literal evaluates to the list of its values; "[1," does not      *)
(* parse.  An expression of several atoms, or the empty one, is no         *)
(* expression of the table and fails as well.                              *)
(***************************************************************************)
IntV(t) == <<"int", <<t>>>>
StrV(t) == <<"str", <<t>>>>

Literals == {"['a','b']", "[1,2]", "[1,1]", "[1]", "[]"}

LiteralValue(tok) ==
    CASE tok = "['a','b']" -> <<StrV("a"), StrV("b")>>
      [] tok = "[1,2]"     -> <<IntV("1"), IntV("2")>>
      [] tok = "[1,1]"     -> <<IntV("1"), IntV("1")>>
      [] tok = "[1]"       -> <<IntV("1")>>
      [] tok = "[]"        -> <<>>

EvalOk(expr) == Len(expr) = 1 /\ expr[1] \in Literals
Eval(expr) == LiteralValue(expr[1])

\* str(value), as the template engine writes a value into the output.
PyStr(v) == v[2]

(***************************************************************************)
(* The Jinja2 template language, as far as the tools use it: literal text, *)
(* {{name}} and {{name.attr}}.  The tools build every Template and         *)
(* Environment with the default `undefined`, so a name absent from the     *)
(* context is an Undefined value: it prints as empty text, and an          *)
(* attribute access on it raises UndefinedError.  An attribute a defined   *)
(* value lacks is Undefined too and prints as empty text.                  *)
(***************************************************************************)
VarAtoms == {"{{m}}", "{{n}}"}
AttrAtoms == {"{{m.x}}", "{{n.x}}"}

NameOf(atom) ==
    CASE atom \in {"{{m}}", "{{m.x}}"} -> "m"
      [] atom \in {"{{n}}", "{{n.x}}"} -> "n"

\* dict lookup: context is a sequence of <<key, value>> with unique keys.
HasKey(ctx, key) == \E j \in 1..Len(ctx) : ctx[j][1] = key
Lookup(ctx, key) == ctx[CHOOSE j \in 1..Len(ctx) : ctx[j][1] = key][2]

\* context[key] = value
DictSet(ctx, key, value) ==
    IF HasKey(ctx, key)
    THEN [j \in 1..Len(ctx) |-> IF ctx[j][1] = key THEN <<key, value>> ELSE ctx[j]]
    ELSE Append(ctx, <<key, value>>)

\* What one atom of a template contributes to the output.
RenderAtom(atom, ctx) ==
    IF atom \in VarAtoms
    THEN [ok |-> TRUE,
          text |-> IF HasKey(ctx, <<NameOf(atom)>>)
                   THEN PyStr(Lookup(ctx, <<NameOf(atom)>>)) ELSE <<>>]
    ELSE IF atom \in AttrAtoms
    THEN [ok |-> HasKey(ctx, <<NameOf(atom)>>), text |-> <<>>]
    ELSE [ok |-> TRUE, text |-> <<atom>>]

\* Template(source).render(ctx): ok = FALSE stands for UndefinedError.
Render(source, ctx) ==
    LET parts == [j \in 1..Len(source) |-> RenderAtom(source[j], ctx)]
    IN  [ok   |-> \A j \in 1..Len(source) : parts[j].ok,
         text |-> Flatten([j \in 1..Len(source) |-> parts[j].text])]

(***************************************************************************)
(* os.path.dirname / os.path.basename, and the file system the loader      *)
(* reads.                                                                  *)
(***************************************************************************)
RECURSIVE RStripSlash(_)
RStripSlash(p) ==
    IF p # <<>> /\ p[Len(p)] = "/" THEN RStripSlash(SubSeq(p, 1, Len(p) - 1)) ELSE p

DirName(p) ==
    LET head == SubSeq(p, 1, LastIndexOf(p, "/"))
    IN  IF head # <<>> /\ \E j \in 1..Len(head) : head[j] # "/"
        THEN RStripSlash(head) ELSE head

BaseName(p) == SubSeq(p, LastIndexOf(p, "/") + 1, Len(p))

\* The file FileSystemLoader(dir).get_template(base) opens.
LoaderPath(dir, base) ==
    IF dir = <<>> THEN base
    ELSE IF dir[Len(dir)] = "/" THEN dir \o base
    ELSE dir \o <<"/">> \o base

\* The template files that exist, and their text.
FilePaths == { <<"d", "/", "a", ".xml">>, <<"d", "/", ".xml">>, <<"s.xml">> }

FileText(path) ==
    CASE path = <<"d", "/", "a", ".xml">> -> <<"scene ", "{{m}}", " spp ", "{{n}}">>
      [] path = <<"d", "/", ".xml">>      -> <<"plain">>
      [] path = <<"s.xml">>               -> <<"spp ", "{{n}}", " ", "{{m.x}}">>

\* get_template finds a file: a name that is empty names the directory itself.
TemplateExists(dir, base) == base # <<>> /\ LoaderPath(dir, base) \in FilePaths

(***************************************************************************)
(* The command lines the model draws.                                      *)
(***************************************************************************)
EntryPool ==
    { <<"m", "=", "['a','b']">>, <<"n", "=", "[1,2]">>, <<"n", "=", "[1,1]">>,
      <<"m", "=", "[1]">>, <<"n", "=", "[]">>,
      <<"m">>, <<"m", "=", "[1]", "=", "[1]">>, <<"n", "=", "[1,">> }

InfilePool ==
    { <<"d", "/", "{{m}}", ".xml">>, <<"s.xml">>, <<"{{n.x}}", "s.xml">>,
      <<"d", "/", "a", ".xml">> }

ArgLists ==
    { <<>>,
      << <<"--spp", "=", "{{n}}">> >>,
      << <<"--spp", "=", "{{n}}">>, <<"-o", "{{m.x}}">> >> }

\* argparse with action='append': None without -t, else the list of the -t values.
EntryArgs ==
    {[isNone |-> TRUE, items |-> <<>>]}
    \cup {[isNone |-> FALSE, items |-> s] : s \in SeqsUpTo(EntryPool, 1, MaxEntries)}

Init ==
    /\ tool \in {"sweep", "single"}
    /\ infile \in InfilePool
    /\ args_entry \in EntryArgs
    /\ unknown \in (IF tool = "sweep" THEN ArgLists ELSE {<<>>})
    /\ exeExists \in (IF tool = "sweep" THEN BOOLEAN ELSE {FALSE})
    /\ pc = (IF tool = "sweep" THEN "parse" ELSE "s_load")
    /\ i = 1
    /\ entries = <<>>
    /\ combos = <<>>
    /\ visited = <<>>
    /\ context = <<>>
    /\ filename = <<>>
    /\ scene = <<>>
    /\ resolved = <<>>
    /\ resolved_args = <<>>
    /\ fsLog = <<>>
    /\ launches = <<>>
    /\ alive = {}
    /\ pstatus = "none"
    /\ out = <<>>
    /\ err = "none"

inputs == <<tool, infile, args_entry, unknown, exeExists>>

(***************************************************************************)
(* An unhandled exception: it propagates out of main() and ends the run.   *)
(***************************************************************************)
RaiseAndContinue(e) ==
    /\ err' = e
    /\ pc' = IF pc \in {"path", "load", "content", "args", "launch"}
             THEN "next" ELSE "failed"

Raise(e) ==
    /\ err' = e
    /\ pc' = "failed"

(***************************************************************************)
(* cbresolve.py, lines 25-30: the entries loop.                            *)
(***************************************************************************)
\* list((key, v) for v in eval(value))
Options(key, values) == [j \in 1..Len(values) |-> <<key, values[j]>>]

ParseNone ==
    /\ tool = "sweep" /\ pc = "parse" /\ args_entry.isNone
    /\ Raise("TypeError")
    /\ UNCHANGED <<inputs, i, entries, combos, visited, context, filename, scene,
                   resolved, resolved_args, fsLog, launches, alive, pstatus, out>>

ParseEntrySkipBad ==
    /\ tool = "sweep" /\ pc = "parse" /\ ~args_entry.isNone
    /\ i <= Len(args_entry.items)
    /\ LET parts == Split(args_entry.items[i])
       IN  /\ entries' = IF Len(parts) = 2 /\ EvalOk(parts[2])
                         THEN Append(entries, Options(parts[1], Eval(parts[2])))
                         ELSE entries
           /\ i' = i + 1
           /\ UNCHANGED <<pc, err>>
    /\ UNCHANGED <<inputs, combos, visited, context, filename, scene, resolved,
                   resolved_args, fsLog, launches, alive, pstatus, out>>

ParseEntry ==
    /\ tool = "sweep" /\ pc = "parse" /\ ~args_entry.isNone
    /\ i <= Len(args_entry.items)
    /\ LET parts == Split(args_entry.items[i])
       IN  IF Len(parts) # 2
           THEN Raise("ValueError") /\ UNCHANGED <<i, entries>>
           ELSE IF ~EvalOk(parts[2])
           THEN Raise("EvalError") /\ UNCHANGED <<i, entries>>
           ELSE /\ entries' = Append(entries, Options(parts[1], Eval(parts[2])))
                /\ i' = i + 1
                /\ UNCHANGED <<pc, err>>
    /\ UNCHANGED <<inputs, combos, visited, context, filename, scene, resolved,
                   resolved_args, fsLog, launches, alive, pstatus, out>>

(***************************************************************************)
(* cbresolve.py, line 33: itertools.product of the entries.  The library    *)
(* documents it as                                                         *)
(*     result = [[]]                                                       *)
(*     for pool in pools: result = [x+[y] for x in result for y in pool]   *)
(***************************************************************************)
RECURSIVE ProductFirstFastest(_)
ProductFirstFastest(pools) ==
    IF pools = <<>> THEN << <<>> >>
    ELSE LET prev == ProductFirstFastest(Tail(pools))
             pool == Head(pools)
         IN  [k \in 1..(Len(prev) * Len(pool)) |->
                <<pool[((k - 1) % Len(pool)) + 1]>> \o prev[((k - 1) \div Len(pool)) + 1]]

RECURSIVE Product(_)
Product(pools) ==
    IF pools = <<>> THEN << <<>> >>
    ELSE LET prev == Product(SubSeq(pools, 1, Len(pools) - 1))
             pool == pools[Len(pools)]
         IN  [k \in 1..(Len(prev) * Len(pool)) |->
                Append(prev[((k - 1) \div Len(pool)) + 1], pool[((k - 1) % Len(pool)) + 1])]

StartProduct ==
    /\ tool = "sweep" /\ pc = "parse" /\ ~args_entry.isNone
    /\ i > Len(args_entry.items)
    /\ combos' = Product(entries)
    /\ pc' = "next"
    /\ UNCHANGED <<inputs, i, entries, visited, context, filename, scene, resolved,
                   resolved_args, fsLog, launches, alive, pstatus, out, err>>

(***************************************************************************)
(* cbresolve.py, lines 33-38: the next tuple of the product, and its dict. *)
(***************************************************************************)
RECURSIVE BuildContextFirstWins(_)
BuildContextFirstWins(entry) ==
    IF entry = <<>> THEN <<>>
    ELSE LET rest == BuildContextFirstWins(SubSeq(entry, 1, Len(entry) - 1))
             v == entry[Len(entry)]
         IN  IF HasKey(rest, v[1]) THEN rest ELSE Append(rest, v)

RECURSIVE BuildContext(_)
BuildContext(entry) ==
    IF entry = <<>> THEN <<>>
    ELSE LET v == entry[Len(entry)]
         IN  DictSet(BuildContext(SubSeq(entry, 1, Len(entry) - 1)), v[1], v[2])

NextCombination ==
    /\ tool = "sweep" /\ pc = "next"
    /\ IF Len(visited) < Len(combos)
       THEN LET entry == combos[Len(visited) + 1]
            IN  /\ visited' = Append(visited, entry)
                /\ context' = BuildContext(entry)
                /\ pc' = "path"
       ELSE /\ pc' = "done"
            /\ UNCHANGED <<visited, context>>
    /\ UNCHANGED <<inputs, i, entries, combos, filename, scene, resolved,
                   resolved_args, fsLog, launches, alive, pstatus, out, err>>

(***************************************************************************)
(* cbresolve.py, lines 40-58: path, template, document, arguments.         *)
(***************************************************************************)
RenderPath ==
    /\ tool = "sweep" /\ pc = "path"
    /\ LET r == Render(infile, context)
       IN  IF r.ok
           THEN /\ filename' = r.text
                /\ out' = Append(out, <<"filename", r.text>>)
                /\ pc' = "load"
                /\ UNCHANGED err
           ELSE Raise("UndefinedError") /\ UNCHANGED <<filename, out>>
    /\ UNCHANGED <<inputs, i, entries, combos, visited, context, scene, resolved,
                   resolved_args, fsLog, launches, alive, pstatus>>

LoadTemplate ==
    /\ tool = "sweep" /\ pc = "load"
    /\ LET dir == DirName(filename)
           base == BaseName(filename)
       IN  /\ fsLog' = Append(fsLog, <<dir, base>>)
           /\ IF TemplateExists(dir, base)
              THEN /\ scene' = FileText(LoaderPath(dir, base))
                   /\ pc' = "content"
                   /\ UNCHANGED err
              ELSE Raise("TemplateNotFound") /\ UNCHANGED scene
    /\ UNCHANGED <<inputs, i, entries, combos, visited, context, filename, resolved,
                   resolved_args, launches, alive, pstatus, out>>

RenderContent ==
    /\ tool = "sweep" /\ pc = "content"
    /\ LET r == Render(scene, context)
       IN  IF r.ok
           THEN /\ resolved' = r.text
                /\ pc' = "args"
                /\ UNCHANGED err
           ELSE Raise("UndefinedError") /\ UNCHANGED resolved
    /\ UNCHANGED <<inputs, i, entries, combos, visited, context, filename, scene,
                   resolved_args, fsLog, launches, alive, pstatus, out>>

RenderArgs ==
    /\ tool = "sweep" /\ pc = "args"
    /\ LET rs == [j \in 1..Len(unknown) |-> Render(unknown[j], context)]
       IN  IF \A j \in 1..Len(unknown) : rs[j].ok
           THEN /\ resolved_args' = [j \in 1..Len(unknown) |-> rs[j].text]
                /\ out' = out \o << <<"Started", <<>>>>, <<"Parameters", <<>>>>,
                                    <<"Arguments", <<>>>> >>
                /\ pc' = "launch"
                /\ UNCHANGED err
           ELSE Raise("UndefinedError") /\ UNCHANGED <<resolved_args, out>>
    /\ UNCHANGED <<inputs, i, entries, combos, visited, context, filename, scene,
                   resolved, fsLog, launches, alive, pstatus>>

(***************************************************************************)
(* cbresolve.py, lines 60-72: the renderer subprocess.                     *)
(***************************************************************************)
CommandBaseIsFile(path, rargs) ==
    << <<"./lightmetrica">>, <<"render">>, <<"-i">>, <<"-b">>, path >> \o rargs

Command(path, rargs) ==
    << <<"./lightmetrica">>, <<"render">>, <<"-i">>, <<"-b">>, DirName(path) >> \o rargs


\* sp.Popen(...): OSError when the executable cannot be started.
Launch ==
    /\ tool = "sweep" /\ pc = "launch"
    /\ IF exeExists
       THEN /\ launches' = Append(launches,
                   [argv |-> Command(filename, resolved_args), written |-> FALSE,
                    stdin |-> <<>>])
            /\ alive' = alive \cup {Len(launches) + 1}
            /\ pstatus' = "running"
            /\ pc' = "communicate"
            /\ UNCHANGED err
       ELSE Raise("OSError") /\ UNCHANGED <<launches, alive, pstatus>>
    /\ UNCHANGED <<inputs, i, entries, combos, visited, context, filename, scene,
                   resolved, resolved_args, fsLog, out>>

\* p.communicate(input), first half: write the document to the pipe and close
\* it.  (A child that has exited already breaks the pipe, which communicate
\* ignores: what is recorded is what the parent writes.)
WriteInput ==
    /\ tool = "sweep" /\ pc = "communicate"
    /\ launches' = [launches EXCEPT ![Len(launches)].written = TRUE,
                                    ![Len(launches)].stdin = resolved]
    /\ pc' = "wait"
    /\ UNCHANGED <<inputs, i, entries, combos, visited, context, filename, scene,
                   resolved, resolved_args, fsLog, alive, pstatus, out, err>>

\* The renderer terminates, with some exit status.
ProcExit ==
    /\ \E k \in alive : \E code \in {"exit0", "exit1"} :
          /\ alive' = alive \ {k}
          /\ pstatus' = IF k = Len(launches) THEN code ELSE pstatus
    /\ UNCHANGED <<inputs, pc, i, entries, combos, visited, context, filename, scene,
                   resolved, resolved_args, fsLog, launches, out, err>>

Finish ==
    /\ out' = out \o << <<"Finished", <<>>>>, <<"----", <<>>>> >>
    /\ pc' = "next"
    /\ UNCHANGED <<inputs, i, entries, combos, visited, context, filename, scene,
                   resolved, resolved_args, fsLog, launches, alive, pstatus, err>>

WaitExitNoWait ==
    /\ tool = "sweep" /\ pc = "wait"
    /\ Finish

WaitExitChecked ==
    /\ tool = "sweep" /\ pc = "wait"
    /\ pstatus \in {"exit0", "exit1"}
    /\ IF pstatus = "exit0"
       THEN Finish
       ELSE /\ Raise("CalledProcessError")
            /\ UNCHANGED <<inputs, i, entries, combos, visited, context, filename,
                           scene, resolved, resolved_args, fsLog, launches, alive, pstatus, out>>

\* p.communicate(input), second half: wait for the child; then lines 70-72.
WaitExit ==
    /\ tool = "sweep" /\ pc = "wait"
    /\ pstatus \in {"exit0", "exit1"}
    /\ Finish

(***************************************************************************)
(* resolve.py: load the template, build the dict, render, print.           *)
(***************************************************************************)
SLoad ==
    /\ tool = "single" /\ pc = "s_load"
    /\ LET dir == DirName(infile)
           base == BaseName(infile)
       IN  /\ fsLog' = Append(fsLog, <<dir, base>>)
           /\ IF TemplateExists(dir, base)
              THEN /\ scene' = FileText(LoaderPath(dir, base))
                   /\ pc' = "s_parse"
                   /\ UNCHANGED err
              ELSE Raise("TemplateNotFound") /\ UNCHANGED scene
    /\ UNCHANGED <<inputs, i, entries, combos, visited, context, filename, resolved,
                   resolved_args, launches, alive, pstatus, out>>

SParseNone ==
    /\ tool = "single" /\ pc = "s_parse" /\ args_entry.isNone
    /\ Raise("TypeError")
    /\ UNCHANGED <<inputs, i, entries, combos, visited, context, filename, scene,
                   resolved, resolved_args, fsLog, launches, alive, pstatus, out>>

SParseEntry ==
    /\ tool = "single" /\ pc = "s_parse" /\ ~args_entry.isNone
    /\ i <= Len(args_entry.items)
    /\ LET parts == Split(args_entry.items[i])
       IN  IF Len(parts) # 2
           THEN Raise("ValueError") /\ UNCHANGED <<i, context>>
           ELSE /\ context' = DictSet(context, parts[1], <<"str", parts[2]>>)
                /\ i' = i + 1
                /\ UNCHANGED <<pc, err>>
    /\ UNCHANGED <<inputs, entries, combos, visited, filename, scene, resolved,
                   resolved_args, fsLog, launches, alive, pstatus, out>>

SRender ==
    /\ tool = "single" /\ pc = "s_parse" /\ ~args_entry.isNone
    /\ i > Len(args_entry.items)
    /\ LET r == Render(scene, context)
       IN  IF r.ok
           THEN /\ resolved' = r.text
                /\ out' = Append(out, <<"text", r.text>>)
                /\ pc' = "done"
                /\ UNCHANGED err
           ELSE Raise("UndefinedError") /\ UNCHANGED <<resolved, out>>
    /\ UNCHANGED <<inputs, i, entries, combos, visited, context, filename, scene,
                   resolved_args, fsLog, launches, alive, pstatus>>

Next ==
    \/ ParseNone
    \/ ParseEntry
    \/ StartProduct
    \/ NextCombination
    \/ RenderPath
    \/ LoadTemplate
    \/ RenderContent
    \/ RenderArgs
    \/ Launch
    \/ WriteInput
    \/ ProcExit
    \/ WaitExit
    \/ SLoad
    \/ SParseNone
    \/ SParseEntry
    \/ SRender

Spec == Init /\ [][Next]_vars

(***************************************************************************)
(* What the claims speak of, stated on the command line itself.            *)
(***************************************************************************)
Items == args_entry.items
NumEq(e) == Cardinality({j \in 1..Len(e) : e[j] = "="})

\* An entry with exactly one '=' whose value expression evaluates to a list.
WellFormed(e) == NumEq(e) = 1 /\ Len(e) >= 2 /\ e[Len(e) - 1] = "=" /\ e[Len(e)] \in Literals
AllWellFormed == ~args_entry.isNone /\ \A j \in 1..Len(Items) : WellFormed(Items[j])

DeclaredKey(j) == SubSeq(Items[j], 1, Len(Items[j]) - 2)
DeclaredValues(j) == LiteralValue(Items[j][Len(Items[j])])

RECURSIVE CardsFrom(_)
CardsFrom(j) == IF j > Len(Items) THEN 1 ELSE Len(DeclaredValues(j)) * CardsFrom(j + 1)

\* The k-th tuple of the nested loops over the declared lists, first list outermost.
LexTuple(k) ==
    [j \in 1..Len(Items) |->
        <<DeclaredKey(j),
          DeclaredValues(j)[(((k - 1) \div CardsFrom(j + 1)) % Len(DeclaredValues(j))) + 1]>>]

CountTag(tag) == Cardinality({j \in 1..Len(out) : out[j][1] = tag})

\* C1: with N >= 1 well-formed entries of cardinalities c1..cN, the k-th
\* combination the sweep visits is the k-th tuple in lexicographic product order
\* over declaration order (first-declared slowest, last-declared fastest), and a
\* run that completes has visited, and launched a renderer for, exactly
\* c1*...*cN combinations.
C1_LexicographicProduct ==
    (tool = "sweep" /\ AllWellFormed) =>
        /\ \A k \in 1..Len(visited) : visited[k] = LexTuple(k)
        /\ Len(visited) <= CardsFrom(1)
        /\ pc = "done" => /\ Len(visited) = CardsFrom(1)
                          /\ Len(launches) = CardsFrom(1)

C1_Witness ==
    /\ tool = "sweep" /\ pc = "done"
    /\ Items = << <<"m", "=", "['a','b']">>, <<"n", "=", "[1,2]">> >>
    /\ visited = << << <<<<"m">>, StrV("a")>>, <<<<"n">>, IntV("1")>> >>,
                    << <<<<"m">>, StrV("a")>>, <<<<"n">>, IntV("2")>> >>,
                    << <<<<"m">>, StrV("b")>>, <<<<"n">>, IntV("1")>> >>,
                    << <<<<"m">>, StrV("b")>>, <<<<"n">>, IntV("2")>> >> >>
    /\ Len(launches) = 4

\* C2: without any -t entry the sweep runs exactly one combination, with the
\* empty context: once the run has ended, one tuple (the empty one) was visited
\* and the path was rendered once.
C2_EmptyEntriesOneCombination ==
    (tool = "sweep" /\ args_entry.isNone /\ pc \in {"done", "failed"}) =>
        /\ visited = << <<>> >>
        /\ context = <<>>
        /\ CountTag("filename") = 1

\* C3: at most one renderer subprocess is alive, it is the one launched last,
\* and none is alive while the sweep is between combinations or at the path
\* rendering, template loading, rendering or launch of a combination.
C3_OneAtATime ==
    tool = "sweep" =>
        /\ Cardinality(alive) <= 1
        /\ alive \subseteq {Len(launches)}
        /\ pc \in {"next", "path", "load", "content", "args", "launch", "done", "failed"}
              => alive = {}

C3_Witness ==
    /\ tool = "sweep" /\ pc = "load"
    /\ Len(visited) = 2 /\ Len(launches) = 1
    /\ alive = {} /\ pstatus \in {"exit0", "exit1"}

\* C4: the exit status is never inspected: every subprocess the run has waited
\* for has its finish marker printed, whatever its status, no failure of the run
\* is raised by or attributed to a combination whose subprocess was launched,
\* and a run that completes has launched every combination.
C4_ExitStatusIgnored ==
    tool = "sweep" =>
        /\ \A k \in 1..Len(launches) :
              (k < Len(launches) \/ pc \notin {"communicate", "wait"})
                  => /\ CountTag("Finished") >= k
                     /\ ~(pc = "failed" /\ Len(visited) = k)
        /\ err \in {"none", "TypeError", "ValueError", "EvalError", "UndefinedError",
                    "TemplateNotFound", "OSError"}
        /\ pc = "done" => Len(launches) = Len(combos)

C4_Witness ==
    /\ tool = "sweep" /\ pc = "launch"
    /\ Len(visited) = 2 /\ Len(launches) = 1
    /\ pstatus = "exit1"
    /\ CountTag("Finished") = 1

\* C5: every entry is split and evaluated before the first combination starts,
\* and a run with any entry that has not exactly one '=' or whose value
\* expression does not evaluate renders no path, loads no template, launches no
\* subprocess, and can only fail with the parse or evaluation error.
C5_ParseBeforeAnyCombination ==
    (tool = "sweep" /\ ~args_entry.isNone) =>
        /\ visited # <<>> => (i = Len(Items) + 1 /\ Len(entries) = Len(Items))
        /\ (\E j \in 1..Len(Items) : ~WellFormed(Items[j])) =>
              /\ visited = <<>> /\ fsLog = <<>> /\ launches = <<>> /\ out = <<>>
              /\ pc \in {"parse", "failed"}
              /\ pc = "failed" => err \in {"ValueError", "EvalError"}

C5_Witness ==
    /\ tool = "sweep" /\ pc = "failed"
    /\ Len(Items) = 2 /\ WellFormed(Items[1]) /\ ~WellFormed(Items[2])
    /\ i = 2 /\ Len(entries) = 1

\* C6: in the Single Resolver an entry without exactly one '=' fails the run
\* before the template file is accessed and with nothing printed.
C6_SingleFailsBeforeLoad ==
    (tool = "single" /\ err = "ValueError") => (fsLog = <<>> /\ out = <<>>)

\* One step of the sweep, as C7 allows it.
C7_Step ==
    tool = "sweep" =>
        /\ err = "none"
        /\ Len(launches') >= Len(launches)
        /\ \A k \in 1..Len(launches) : launches'[k].argv = launches[k].argv
        /\ err' # "none" =>
              /\ pc' = "failed"
              /\ launches' = launches
              /\ Len(launches) = IF visited = <<>> THEN 0 ELSE Len(visited) - 1

\* C7: a failure ends the run: no step follows it (no retry, no later launch),
\* the failing step launches nothing and leaves the launches made so far as
\* they are, so that the failing combination k has no launch: k-1 launches stand.
C7_FailureTerminates == [][C7_Step]_vars

C7_Witness ==
    /\ tool = "sweep" /\ pc = "failed"
    /\ Len(visited) = 2 /\ Len(launches) = 1
    /\ launches[1].written

\* The names a template refers to.
Refs(source) == {NameOf(source[j]) : j \in {h \in 1..Len(source) : source[h] \in VarAtoms \cup AttrAtoms}}
Keys(ctx) == {ctx[j][1] : j \in 1..Len(ctx)}
Defined(source, ctx) == \A nm \in Refs(source) : <<nm>> \in Keys(ctx)

\* C8: rendering a template that refers to a name absent from the context
\* fails, and never yields text with the placeholder empty: a path that was
\* rendered, a document that was rendered for a launch, and a text the Single
\* Resolver printed all come from templates whose names the context defines.
C8_UndefinedNameFails ==
    /\ (tool = "sweep" /\ pc = "load") => Defined(infile, context)
    /\ (tool = "sweep" /\ pc \in {"args", "launch", "communicate", "wait"})
          => Defined(scene, context)
    /\ (tool = "single" /\ out # <<>>) => Defined(scene, context)

\* C9, as claimed: the tuples visited are pairwise distinct, and the context of a
\* combination maps the name of every entry to the value chosen for that entry.
C9_DistinctAndComplete ==
    (tool = "sweep" /\ visited # <<>>) =>
        /\ \A j, k \in 1..Len(visited) : j < k => visited[j] # visited[k]
        /\ LET entry == visited[Len(visited)]
           IN  \A p \in 1..Len(entry) :
                  /\ HasKey(context, entry[p][1])
                  /\ Lookup(context, entry[p][1]) = entry[p][2]

NoRepeatedValues ==
    \A j \in 1..Len(entries) : \A a, b \in 1..Len(entries[j]) :
        a < b => entries[j][a] # entries[j][b]

\* C9, amended: the tuples visited are pairwise distinct when no value list
\* holds a value twice; the context of a combination has exactly the declared
\* names as keys, each once, and maps a name to the value chosen for the
\* last-declared entry of that name.
C9_DistinctIfNoRepeats ==
    (tool = "sweep" /\ visited # <<>>) =>
        /\ NoRepeatedValues =>
              \A j, k \in 1..Len(visited) : j < k => visited[j] # visited[k]
        /\ LET entry == visited[Len(visited)]
           IN  /\ Keys(context) = {entry[p][1] : p \in 1..Len(entry)}
               /\ Len(context) = Cardinality(Keys(context))
               /\ \A p \in 1..Len(entry) :
                     (\A q \in (p + 1)..Len(entry) : entry[q][1] # entry[p][1])
                        => Lookup(context, entry[p][1]) = entry[p][2]

C9_Witness ==
    /\ tool = "sweep" /\ pc = "path"
    /\ LET entry == visited[Len(visited)]
       IN  /\ Len(entry) = 2
           /\ entry[1][1] = entry[2][1]
           /\ entry[1][2] # entry[2][2]

\* The steps of one combination, in their order.
StepOrder ==
    { <<"next", "path">>, <<"path", "load">>, <<"load", "content">>,
      <<"content", "args">>, <<"args", "launch">>, <<"launch", "communicate">>,
      <<"communicate", "wait">>, <<"wait", "next">> }

\* What launch k must be, from the k-th tuple visited alone: the command, the
\* loader's search root and file name, and the document written.
LaunchFromTuple(k) ==
    LET ctx == BuildContext(visited[k])
        path == Render(infile, ctx).text
    IN  /\ launches[k].argv =
              << <<"./lightmetrica">>, <<"render">>, <<"-i">>, <<"-b">>, DirName(path) >>
              \o [j \in 1..Len(unknown) |-> Render(unknown[j], ctx).text]
        /\ fsLog[k] = <<DirName(path), BaseName(path)>>
        /\ launches[k].written => launches[k].stdin = Render(FileText(path), ctx).text

C10_State ==
    tool = "sweep" => \A k \in 1..Len(launches) : LaunchFromTuple(k)

C10_Step ==
    (tool = "sweep" /\ pc' # pc /\ pc' \notin {"failed", "done"} /\ pc # "parse")
        => <<pc, pc'>> \in StepOrder

\* C10: every launch is derived from the context of its own combination alone:
\* -b is the directory of the path rendered under that context, which is the
\* loader's search root, the arguments are the pass-through arguments rendered
\* under it in order, the document written is the file at that path rendered
\* under it; and the steps of a combination run in the order path, load,
\* content, arguments, launch, write, wait.
C10_LaunchFromOwnContext == []C10_State /\ [][C10_Step]_vars

C10_Witness ==
    /\ tool = "sweep" /\ Len(launches) = 2
    /\ launches[2].written /\ launches[1].written
    /\ launches[1].argv # launches[2].argv
    /\ launches[1].stdin # launches[2].stdin

====
